---- MODULE Spec2Model ----
(***************************************************************************)
(* Model of the windowed image cache, the loader pool and the navigation   *)
(* handlers of "src/Labeling/FLAME Image Labeling Tool.py".                *)
(*                                                                         *)
(* Python lists are modelled as functions on 0..N-1 (0-based, as in the    *)
(* source).  A load task (index, path, kind) is the pair <<index, kind>>:  *)
(* the path is a function of the index and the kind.  A decoded payload is *)
(* the pair <<kind, index>>, None in a cache slot is <<>>, and None in the *)
(* label vector is the string "None" (what str() writes to the state file).*)
(***************************************************************************)
EXTENDS Integers, Sequences, FiniteSets, TLC

\* ----------------------------------------------------------------- bounds
\* Largest number of image pairs, len(rgb_image_files), a run may select.
MaxN == 4
\* Largest buffer radius a run may use (the source sets BUFF_RADIUS = 7).
MaxR == 1
\* Number of loader threads (the source starts 10).
worker_pool == 2
\* Number of user events (keys, buttons) of a run in which no decode raises
\* and the window stays open; timeouts are not counted.
MaxEvents == 2
\* Number of decodes that may raise in a run in which some may; such a run
\* has one user event less, and may end with the window being closed.
MaxFailures == 1
\* Largest number of image pairs and largest buffer radius of the runs that
\* follow the loaders step by step from the preload to the end of the pool.
PoolMaxN == 5
PoolMaxR == 2
\* The sequence lengths of the two worked scenarios (a walk of two arrow
\* keys, and two Go To in a row), and the radius the source sets.
WalkN == 20
JumpN == 100
SourceRadius == 7
\* The second Go To of the scenario of two Go To (the first is Go To 1).
SecondTarget == 50
\* In that scenario, the number of tasks the loaders work through between two
\* steps of the main thread.
BatchSize == 15
\* Largest number of image pairs, and number of user events, of the runs that
\* save the state and load it back.
StateMaxN == 3
StateEvents == 3

\* bounds of the runs with the loop tail taken step by step
DrainMaxN == 2
DrainEvents == 1

VARIABLES
    N,                  \* len(rgb_image_files), fixed when the folder is chosen
    BUFF_RADIUS,        \* radius of the buffer, fixed
    pc,                 \* position of the main thread
    index,              \* viewing index
    labels,             \* label vector
    q,                  \* queue.Queue: the tasks not yet taken
    unfinished_tasks,   \* queue.Queue's count of tasks without task_done()
    wpc,                \* position of each loader thread
    wtask,              \* the task each loader thread holds
    b_rgb, b_ir, b_tiff,    \* output stacks of the loaders
    loaded_rgb_images, loaded_ir_images, loaded_tiff_vals,  \* the cache
    last,               \* the last user event the main loop handled (history)
    nevents,            \* user events handled so far
    nfail,              \* decodes that raised so far
    budget,             \* what this run may contain, fixed
    save_state,         \* the file ./save_state.txt
    drain               \* the iterator of the drain loop the main thread is in

vars == <<N, BUFF_RADIUS, pc, index, labels, q, unfinished_tasks, wpc, wtask,
          b_rgb, b_ir, b_tiff, loaded_rgb_images, loaded_ir_images,
          loaded_tiff_vals, last, nevents, nfail, budget, save_state, drain>>

cache == <<loaded_rgb_images, loaded_ir_images, loaded_tiff_vals>>
stacks == <<b_rgb, b_ir, b_tiff>>
pool == <<wpc, wtask>>
config == <<N, BUFF_RADIUS, budget>>

\* The runs explored: MaxEvents user events with every decode returning, or
\* one user event less, up to MaxFailures decodes raising, and the window
\* closed at any time.
Budgets ==
    {[events |-> MaxEvents, failures |-> 0, close |-> FALSE],
     [events |-> MaxEvents - 1, failures |-> MaxFailures, close |-> TRUE]}

\* ------------------------------------------------------------- basic data
None == <<>>
Unlabeled == "None"
Kinds == {"rgb", "ir", "tiff"}
Workers == 1..worker_pool
Ids == 0..(N - 1)
\* (None, None, None): the task that ends a loader
StopTask == <<-1, "None">>
\* No drain loop is running: a list iterator starts at the first position
\* (positions are 1-based here) and holds no item.
NoItem == <<>>
NoDrain == [i |-> 1, item |-> NoItem, placed |-> FALSE]

\* ./save_state.txt before Save State has written it
NoFile == <<>>
NoTask == <<-2, "None">>

\* load_image(path) / get_temp_stats_from_tiff(path) when they return
Payload(task) == <<task[2], task[1]>>

\* Fault: the distance counted in one direction only.
ForwardDistance(ix, id) == (id - ix) % N

\* min((index - id) % len, (id - index) % len)
CircularDistance(ix, id) ==
    LET a == (ix - id) % N
        b == (id - ix) % N
    IN IF a < b THEN a ELSE b

\* labels[index], loaded[index]: a negative subscript counts from the end
InPyRange(ix) == ix >= -N /\ ix <= N - 1
PyIdx(ix) == IF ix < 0 THEN ix + N ELSE ix

\* for i in range(-BUFF_RADIUS, BUFF_RADIUS + 1): one task per kind of `kinds`
\* for (ix + i) % N, in the order of the q.put calls
WindowTasks(ix, kinds) ==
    [m \in 1..(Len(kinds) * (2 * BUFF_RADIUS + 1)) |->
        <<(ix + ((m - 1) \div Len(kinds)) - BUFF_RADIUS) % N,
          kinds[((m - 1) % Len(kinds)) + 1]>>]

\* the preload list of main(): the tiff line is commented out
starting_images_of(n, r) ==
    [m \in 1..(2 * (2 * r + 1)) |->
        <<(0 + ((m - 1) \div 2) - r) % n, <<"rgb", "ir">>[((m - 1) % 2) + 1]>>]

\* ------------------------------------------------------------------ Init
Init ==
    /\ N \in 1..MaxN
    /\ BUFF_RADIUS \in 0..MaxR
    /\ pc = "join"
    /\ index = 0
    /\ labels = [i \in 0..(N - 1) |-> Unlabeled]
    /\ q = starting_images_of(N, BUFF_RADIUS)
    /\ unfinished_tasks = Len(starting_images_of(N, BUFF_RADIUS))
    /\ wpc = [w \in Workers |-> "get"]
    /\ wtask = [w \in Workers |-> NoTask]
    /\ b_rgb = <<>> /\ b_ir = <<>> /\ b_tiff = <<>>
    /\ loaded_rgb_images = [i \in 0..(N - 1) |-> None]
    /\ loaded_ir_images = [i \in 0..(N - 1) |-> None]
    /\ loaded_tiff_vals = [i \in 0..(N - 1) |-> None]
    /\ last = [event |-> "start", result |-> "ok"]
    /\ nevents = 0
    /\ nfail = 0
    /\ budget \in Budgets
    /\ save_state = NoFile
    /\ drain = NoDrain

\* --------------------------------------------------------------- loaders
\* Fault: q.get() itself counts the task as done.
unfinished_after_get_early(u) == u - 1

\* queue.Queue.get() takes the task and leaves the count of unfinished tasks
\* alone: only q.task_done() lowers it
unfinished_after_get(u) == u

\* index, path, rgb_ir = q.get(); if path is None: break
img_loader_get(w) ==
    /\ wpc[w] = "get"
    /\ q # <<>>
    /\ q' = Tail(q)
    /\ unfinished_tasks' = unfinished_after_get(unfinished_tasks)
    /\ IF Head(q) = StopTask
          THEN /\ wpc' = [wpc EXCEPT ![w] = "exited"]
               /\ UNCHANGED wtask
          ELSE /\ wpc' = [wpc EXCEPT ![w] = "decode"]
               /\ wtask' = [wtask EXCEPT ![w] = Head(q)]
    /\ UNCHANGED <<config, save_state, drain, pc, index, labels, stacks, cache, last, nevents, nfail>>

\* img = load_image(path); b_xxx.append((index, img))
img_loader_append(w) ==
    /\ wpc[w] = "decode"
    /\ LET task == wtask[w]
           res == <<task[1], Payload(task)>>
       IN /\ b_rgb' = IF task[2] = "rgb" THEN Append(b_rgb, res) ELSE b_rgb
          /\ b_ir' = IF task[2] = "ir" THEN Append(b_ir, res) ELSE b_ir
          /\ b_tiff' = IF task[2] = "tiff" THEN Append(b_tiff, res) ELSE b_tiff
    /\ wpc' = [wpc EXCEPT ![w] = "task_done"]
    /\ UNCHANGED <<config, save_state, drain, pc, index, labels, q, unfinished_tasks,
                   wtask, cache, last, nevents, nfail>>

\* The position of a loader whose decode raised: img_loader has no handler, so
\* the exception ends the thread before append and before q.task_done().
AfterDecodeError == "dead"

\* load_image / get_temp_stats_from_tiff raises (cv2.resize of an unreadable
\* image, Image.open of a missing file)
img_loader_raise(w) ==
    /\ wpc[w] = "decode"
    /\ nfail < budget.failures
    /\ nfail' = nfail + 1
    /\ wpc' = [wpc EXCEPT ![w] = AfterDecodeError]
    /\ UNCHANGED <<config, save_state, drain, pc, index, labels, q, unfinished_tasks,
                   wtask, stacks, cache, last, nevents>>

\* q.task_done()
img_loader_task_done(w) ==
    /\ wpc[w] = "task_done"
    /\ unfinished_tasks' = unfinished_tasks - 1
    /\ wpc' = [wpc EXCEPT ![w] = "get"]
    /\ wtask' = [wtask EXCEPT ![w] = NoTask]
    /\ UNCHANGED <<config, save_state, drain, pc, index, labels, q, stacks, cache,
                   last, nevents, nfail>>

img_loader(w) ==
    \/ img_loader_get(w)
    \/ img_loader_append(w)
    \/ img_loader_raise(w)
    \/ img_loader_task_done(w)

\* One whole iteration of img_loader's loop taken at once: q.get(), then the
\* break on (None, None, None), or the decode, the append and q.task_done(),
\* or the decode raising.
img_loader_iteration(w) ==
    /\ wpc[w] = "get"
    /\ q # <<>>
    /\ q' = Tail(q)
    /\ \/ /\ Head(q) = StopTask
          /\ wpc' = [wpc EXCEPT ![w] = "exited"]
          /\ UNCHANGED <<stacks, unfinished_tasks, nfail>>
       \/ /\ Head(q) # StopTask
          /\ LET res == <<Head(q)[1], Payload(Head(q))>>
             IN /\ b_rgb' = IF Head(q)[2] = "rgb" THEN Append(b_rgb, res) ELSE b_rgb
                /\ b_ir' = IF Head(q)[2] = "ir" THEN Append(b_ir, res) ELSE b_ir
                /\ b_tiff' = IF Head(q)[2] = "tiff" THEN Append(b_tiff, res) ELSE b_tiff
          /\ unfinished_tasks' = unfinished_tasks - 1
          /\ UNCHANGED <<wpc, nfail>>
       \/ /\ Head(q) # StopTask
          /\ nfail < budget.failures
          /\ nfail' = nfail + 1
          /\ wpc' = [wpc EXCEPT ![w] = AfterDecodeError]
          /\ UNCHANGED <<stacks, unfinished_tasks>>
    /\ UNCHANGED <<config, save_state, drain, pc, index, labels, wtask, cache, last, nevents>>

\* the results of the tasks of kind `kind` among `tasks`, in their order
ResultsOfKind(tasks, kind) ==
    LET mine == SelectSeq(tasks, LAMBDA t : t[2] = kind)
    IN [j \in 1..Len(mine) |-> <<mine[j][1], Payload(mine[j])>>]

\* The loaders, none of them holding a task, run their loop on the first
\* BatchSize load tasks of the queue (or on all of them if there are fewer)
\* before the main thread takes its next step: as many iterations of
\* img_loader with the decode returning.
img_loader_batch ==
    /\ \A w \in Workers : wpc[w] = "get"
    /\ q # <<>>
    /\ \A j \in 1..Len(q) : q[j] # StopTask
    /\ LET k == IF Len(q) < BatchSize THEN Len(q) ELSE BatchSize
           taken == SubSeq(q, 1, k)
       IN /\ q' = SubSeq(q, k + 1, Len(q))
          /\ unfinished_tasks' = unfinished_tasks - k
          /\ b_rgb' = b_rgb \o ResultsOfKind(taken, "rgb")
          /\ b_ir' = b_ir \o ResultsOfKind(taken, "ir")
          /\ b_tiff' = b_tiff \o ResultsOfKind(taken, "tiff")
    /\ UNCHANGED <<config, save_state, drain, pc, index, labels, pool, cache, last, nevents, nfail>>

\* ------------------------------------------------- draining and eviction
\* list.remove(x): the first element equal to x goes
RECURSIVE RemoveFirst(_, _)
RemoveFirst(s, x) ==
    IF s = <<>> THEN <<>>
    ELSE IF Head(s) = x THEN Tail(s)
    ELSE <<Head(s)>> \o RemoveFirst(Tail(s), x)

\* for id, img in b: (place or clear slot id); b.remove((id, img))
\* The list iterator holds a position i (here 1-based) and stops when the
\* position is past the end of the list as it is then.
RECURSIVE DrainLoop(_, _, _, _)
DrainLoop(b, loaded, i, ix) ==
    IF i > Len(b) THEN [b |-> b, loaded |-> loaded]
    ELSE LET id == b[i][1]
             img == b[i][2]
             placed == IF CircularDistance(ix, id) <= BUFF_RADIUS
                          THEN [loaded EXCEPT ![id] = img]
                          ELSE [loaded EXCEPT ![id] = None]
         IN DrainLoop(RemoveFirst(b, b[i]), placed, i + 1, ix)

DrainStack(b, loaded, ix) == DrainLoop(b, loaded, 1, ix)

\* Fault: the slots at the radius itself are cleared too.
ClearOutsideAtRadius(loaded, ix) ==
    [s \in DOMAIN loaded |->
        IF loaded[s] # None /\ CircularDistance(ix, s) >= BUFF_RADIUS
           THEN None ELSE loaded[s]]

\* for ix, item in enumerate(loaded): clear it if it is outside the radius
ClearOutside(loaded, ix) ==
    [s \in DOMAIN loaded |->
        IF loaded[s] # None /\ CircularDistance(ix, s) > BUFF_RADIUS
           THEN None ELSE loaded[s]]

\* The cache arrays that the "clear loaded images" loops of the main loop's
\* tail, of Go To and of Load State go through.
ClearedKinds == {"rgb", "ir"}
GotoClearedKinds == {"rgb", "ir"}
LoadStateClearedKinds == {"rgb", "ir"}

ClearKind(cleared, kind, loaded, ix) ==
    IF kind \in cleared THEN ClearOutside(loaded, ix) ELSE loaded

\* One pass of "Actions completed regardless of event": the three drain loops,
\* then the clear loops, then the display update, which subscripts labels and
\* the cache with index and raises IndexError when index is out of range.
ReconcilePass ==
    LET rgb == DrainStack(b_rgb, loaded_rgb_images, index)
        ir == DrainStack(b_ir, loaded_ir_images, index)
        tiff == DrainStack(b_tiff, loaded_tiff_vals, index)
    IN /\ b_rgb' = rgb.b
       /\ b_ir' = ir.b
       /\ b_tiff' = tiff.b
       /\ loaded_rgb_images' = ClearKind(ClearedKinds, "rgb", rgb.loaded, index)
       /\ loaded_ir_images' = ClearKind(ClearedKinds, "ir", ir.loaded, index)
       /\ loaded_tiff_vals' = ClearKind(ClearedKinds, "tiff", tiff.loaded, index)
       /\ pc' = IF InPyRange(index) THEN "loop" ELSE "crashed"

\* ------------------------------------------------------------ main thread
\* q.join() returns; the worker outputs are moved to the cache; the window
\* is created
JoinReturn ==
    /\ pc = "join"
    /\ unfinished_tasks = 0
    /\ LET rgb == DrainStack(b_rgb, loaded_rgb_images, index)
           ir == DrainStack(b_ir, loaded_ir_images, index)
           tiff == DrainStack(b_tiff, loaded_tiff_vals, index)
       IN /\ b_rgb' = rgb.b
          /\ b_ir' = ir.b
          /\ b_tiff' = tiff.b
          /\ loaded_rgb_images' = rgb.loaded
          /\ loaded_ir_images' = ir.loaded
          /\ loaded_tiff_vals' = tiff.loaded
    /\ pc' = "loop"
    /\ UNCHANGED <<config, save_state, drain, index, labels, q, unfinished_tasks, pool,
                   last, nevents, nfail>>

\* window.read(timeout=500) times out (or an event without a handler): only
\* the actions completed regardless of event run
Timeout ==
    /\ pc = "loop"
    /\ ReconcilePass
    /\ UNCHANGED <<config, save_state, drain, index, labels, q, unfinished_tasks, pool, last,
                   nevents, nfail>>

\* the end of an iteration whose handler did not `continue`
Reconcile ==
    /\ pc = "tick"
    /\ ReconcilePass
    /\ UNCHANGED <<config, save_state, drain, index, labels, q, unfinished_tasks, pool, last,
                   nevents, nfail>>

\* Fault: the index moved without the modulo.
StepIndexNoWrap(ix, d) == ix + d

\* index = (index - 1) % len  /  index = (index + 1) % len
StepIndex(ix, d) == (ix + d) % N

\* Fault: the task is for the position one past the edge of the new window.
StepTasksPastEdge(ix, d) ==
    [m \in 1..2 |-> <<(ix + d * (BUFF_RADIUS + 1)) % N, <<"rgb", "ir">>[m]>>]

\* Fault: the task is for the new index itself.
StepTasksAtIndex(ix, d) == [m \in 1..2 |-> <<ix, <<"rgb", "ir">>[m]>>]

\* the kinds an arrow key enqueues: the tiff q.put is commented out
StepKinds == <<"rgb", "ir">>

\* the q.put calls of an arrow key; ix is the index already moved
StepTasks(ix, d) ==
    [m \in 1..Len(StepKinds) |-> <<(ix + d * BUFF_RADIUS) % N, StepKinds[m]>>]

ArrowName(d) == IF d = 1 THEN "Right:39" ELSE "Left:37"

\* event in ("Left:37", "Right:39")
ArrowKey(d) ==
    /\ pc = "loop"
    /\ nevents < budget.events
    /\ nevents' = nevents + 1
    /\ index' = StepIndex(index, d)
    /\ q' = q \o StepTasks(StepIndex(index, d), d)
    /\ unfinished_tasks' = unfinished_tasks + Len(StepTasks(StepIndex(index, d), d))
    /\ pc' = "tick"
    /\ last' = [event |-> ArrowName(d), result |-> "ok"]
    /\ UNCHANGED <<config, save_state, drain, labels, pool, stacks, cache, nfail>>

KeyLabel(k) == IF k = "1" THEN "Fire" ELSE IF k = "2" THEN "No Fire" ELSE Unlabeled

\* event in ("1", "2", "3"): labels[index] = ...
LabelKey(k) ==
    /\ pc = "loop"
    /\ nevents < budget.events
    /\ nevents' = nevents + 1
    /\ IF InPyRange(index)
          THEN /\ labels' = [labels EXCEPT ![PyIdx(index)] = KeyLabel(k)]
               /\ pc' = "tick"
          ELSE /\ UNCHANGED labels
               /\ pc' = "crashed"
    /\ last' = [event |-> k, result |-> IF InPyRange(index) THEN "ok" ELSE "IndexError"]
    /\ UNCHANGED <<config, save_state, drain, index, q, unfinished_tasks, pool, stacks,
                   cache, nfail>>

DropdownLabel(v) == IF v = "Unlabeled" THEN Unlabeled ELSE v

\* event == "Apply to All"
ApplyToAll(v) ==
    /\ pc = "loop"
    /\ nevents < budget.events
    /\ nevents' = nevents + 1
    /\ labels' = [i \in DOMAIN labels |-> DropdownLabel(v)]
    /\ pc' = "tick"
    /\ last' = [event |-> "Apply to All", result |-> "ok"]
    /\ UNCHANGED <<config, save_state, drain, index, q, unfinished_tasks, pool, stacks,
                   cache, nfail>>

\* event == '-TEMP_LABEL-' with an integer threshold: every file whose
\* thermal maximum reaches the threshold (the set hot) is labeled Fire, every
\* other one No Fire; the loop then falls through to its tail.
TempLabel(hot) ==
    /\ pc = "loop"
    /\ nevents < budget.events
    /\ nevents' = nevents + 1
    /\ labels' = [i \in DOMAIN labels |-> IF i \in hot THEN "Fire" ELSE "No Fire"]
    /\ pc' = "tick"
    /\ last' = [event |-> "-TEMP_LABEL-", result |-> "ok"]
    /\ UNCHANGED <<config, save_state, drain, index, q, unfinished_tasks, pool, stacks,
                   cache, nfail>>

\* Fault: the upper limit of the range test one too high.
GotoValidOffByOne(t) == t > 0 /\ t <= N + 1

\* int(new_index) > 0 and int(new_index) < len(rgb_image_files) + 1
GotoValid(t) == t > 0 /\ t < N + 1

\* Fault: the 1-based number typed is used as the index.
GotoIndexNoShift(t) == t

\* Go To: the index the handler sets
GotoIndex(t) == t - 1

\* Fault: range(-BUFF_RADIUS, BUFF_RADIUS), the window one position short.
GotoTasksShort(ix) ==
    SubSeq(WindowTasks(ix, <<"rgb", "ir", "tiff">>), 1, 3 * 2 * BUFF_RADIUS)

\* Go To: "add images in buff radius around index to queue"
GotoTasks(ix) == WindowTasks(ix, <<"rgb", "ir", "tiff">>)

\* the integers typed into the Go To popup
GotoInputs == 0..(N + 1)

\* event == '-GOTO-', the text typed being the integer t
GoTo(t) ==
    /\ pc = "loop"
    /\ nevents < budget.events
    /\ nevents' = nevents + 1
    /\ IF ~GotoValid(t)
          THEN /\ pc' = "loop"
               /\ last' = [event |-> "-GOTO-", result |-> "rejected"]
               /\ UNCHANGED <<index, q, unfinished_tasks, cache>>
          ELSE /\ index' = GotoIndex(t)
               /\ loaded_rgb_images' =
                      ClearKind(GotoClearedKinds, "rgb", loaded_rgb_images, GotoIndex(t))
               /\ loaded_ir_images' =
                      ClearKind(GotoClearedKinds, "ir", loaded_ir_images, GotoIndex(t))
               /\ loaded_tiff_vals' =
                      ClearKind(GotoClearedKinds, "tiff", loaded_tiff_vals, GotoIndex(t))
               /\ q' = q \o GotoTasks(GotoIndex(t))
               /\ unfinished_tasks' = unfinished_tasks + Len(GotoTasks(GotoIndex(t)))
               /\ pc' = "tick"
               /\ last' = [event |-> "-GOTO-", result |-> "ok"]
    /\ UNCHANGED <<config, save_state, drain, labels, pool, stacks, nfail>>

\* What sg.popup_get_text may return that int() does not take: a text that
\* is no integer, and None when the popup is cancelled.
GotoNonIntegers == {"abc", "None"}

\* the exception int(new_index) raises
IntError(x) == IF x = "None" THEN "TypeError" ELSE "ValueError"

\* event == '-GOTO-', the popup returning x: int(new_index) raises in the
\* `if` of the handler, nothing catches it, and main() ends
GoToNotInt(x) ==
    /\ pc = "loop"
    /\ nevents < budget.events
    /\ nevents' = nevents + 1
    /\ pc' = "crashed"
    /\ last' = [event |-> "-GOTO-", result |-> IntError(x)]
    /\ UNCHANGED <<config, save_state, drain, index, labels, q, unfinished_tasks, pool, stacks,
                   cache, nfail>>

\* --------------------------------------------------------- the state file
\* An entry of the labels line as written or edited, between two commas.
RawEntries == {"'Fire'", "'No Fire'", "None", "'Smoke'"}

\* labels_raw.replace(" ", "").replace("'", ""), on one entry
StripEntry(e) ==
    CASE e = "'Fire'" -> "Fire"
      [] e = "'No Fire'" -> "NoFire"
      [] e = "None" -> "None"
      [] OTHER -> "Smoke"

\* the cases of `match entry` that append; any other entry shows a popup and
\* `continue`s the for loop over the entries
KnownEntry(s) == s \in {"No Fire", "NoFire", "Fire", "None"}

EntryLabel(s) ==
    IF s \in {"No Fire", "NoFire"} THEN "No Fire"
    ELSE IF s = "Fire" THEN "Fire"
    ELSE Unlabeled

\* the list parsed_labels, 1-based
parsed_labels(line) ==
    LET stripped == [i \in 1..Len(line) |-> StripEntry(line[i])]
        known == SelectSeq(stripped, KnownEntry)
    IN [i \in 1..Len(known) |-> EntryLabel(known[i])]

\* a labels line of len entries: a first, then b
Line(a, b, len) == [i \in 1..len |-> IF i = 1 THEN a ELSE b]

\* the labels lines a state file may hold: two well-formed ones, one an entry
\* short, one with an unknown entry, one with an unknown entry and N others
LabelLines ==
    {Line("'Fire'", "'No Fire'", N), Line("None", "'Fire'", N),
     Line("'No Fire'", "None", N - 1), Line("'Smoke'", "'Fire'", N),
     Line("'Smoke'", "'No Fire'", N + 1)}

\* the state files a run may be given
StateFiles ==
    [num_files : {N}, index : {-1, N - 1, N}, labels : LabelLines]
    \cup [num_files : {N - 1, N + 1}, index : {N - 1},
          labels : {Line("'Fire'", "'No Fire'", N)}]

\* Fault: only a state file with too many files is refused.
NumFilesTooMany(f) == f.num_files > N

\* if num_files != len(rgb_image_files)
NumFilesMismatch(f) == f.num_files # N

\* Fault: the length of the parsed list is not looked at.
LabelsLengthNotChecked(f) == FALSE

\* if (len(parsed_labels) != len(labels))
LabelsLengthMismatch(f) == Len(parsed_labels(f.labels)) # N

\* Fault: the tiff q.put left out, as in the arrow-key handler.
LoadStateTasksNoTiff(ix) == WindowTasks(ix, <<"rgb", "ir">>)

\* Load State: "add images in buff radius around index to queue"
LoadStateTasks(ix) == WindowTasks(ix, <<"rgb", "ir", "tiff">>)

\* event == '-LOAD_STATE-' with the file f selected
LoadState(f) ==
    /\ pc = "loop"
    /\ nevents < budget.events
    /\ nevents' = nevents + 1
    /\ IF NumFilesMismatch(f)
          THEN /\ pc' = "loop"
               /\ last' = [event |-> "-LOAD_STATE-", result |-> "mismatch"]
               /\ UNCHANGED <<index, labels, q, unfinished_tasks, cache>>
          ELSE IF LabelsLengthMismatch(f)
          THEN /\ index' = f.index
               /\ pc' = "loop"
               /\ last' = [event |-> "-LOAD_STATE-", result |-> "badlabels"]
               /\ UNCHANGED <<labels, q, unfinished_tasks, cache>>
          ELSE /\ index' = f.index
               /\ labels' = [i \in 0..(Len(parsed_labels(f.labels)) - 1) |->
                                 parsed_labels(f.labels)[i + 1]]
               /\ loaded_rgb_images' =
                      ClearKind(LoadStateClearedKinds, "rgb", loaded_rgb_images, f.index)
               /\ loaded_ir_images' =
                      ClearKind(LoadStateClearedKinds, "ir", loaded_ir_images, f.index)
               /\ loaded_tiff_vals' =
                      ClearKind(LoadStateClearedKinds, "tiff", loaded_tiff_vals, f.index)
               /\ q' = q \o LoadStateTasks(f.index)
               /\ unfinished_tasks' = unfinished_tasks + Len(LoadStateTasks(f.index))
               /\ pc' = "tick"
               /\ last' = [event |-> "-LOAD_STATE-", result |-> "ok"]
    /\ UNCHANGED <<config, save_state, drain, pool, stacks, nfail>>

\* The lines of a state file that int() reads.
IntLines == {"num_files", "index"}

\* event == '-LOAD_STATE-' with a file whose line `line` is no integer:
\* int(state.readline()) raises before index is assigned, nothing catches it,
\* and main() ends
LoadStateNotInt(line) ==
    /\ pc = "loop"
    /\ nevents < budget.events
    /\ nevents' = nevents + 1
    /\ pc' = "crashed"
    /\ last' = [event |-> "-LOAD_STATE-", result |-> "ValueError"]
    /\ UNCHANGED <<config, save_state, drain, index, labels, q, unfinished_tasks, pool, stacks,
                   cache, nfail>>

\* ------------------------------------------- the state file as a text
\* A text is a sequence of characters.  repr() of a label, as the f-string
\* f'{labels}' writes it inside the list
repr_label(l) ==
    IF l = "Fire" THEN <<"'", "F", "i", "r", "e", "'">>
    ELSE IF l = "No Fire" THEN <<"'", "N", "o", " ", "F", "i", "r", "e", "'">>
    ELSE <<"N", "o", "n", "e">>

\* repr(labels[i]), ", ", repr(labels[i + 1]), ... to the end of the list
RECURSIVE join_reprs(_, _)
join_reprs(lbls, i) ==
    IF i \notin DOMAIN lbls THEN <<>>
    ELSE IF (i + 1) \notin DOMAIN lbls THEN repr_label(lbls[i])
    ELSE repr_label(lbls[i]) \o <<",", " ">> \o join_reprs(lbls, i + 1)

\* str(labels) of a Python list
str_list(lbls) == <<"[">> \o join_reprs(lbls, 0) \o <<"]">>

DigitChars == <<"0", "1", "2", "3", "4", "5", "6", "7", "8", "9">>

\* str(n) of an integer, as f'{index}' writes it
RECURSIVE str_nat(_)
str_nat(n) ==
    IF n < 10 THEN <<DigitChars[n + 1]>>
    ELSE str_nat(n \div 10) \o <<DigitChars[(n % 10) + 1]>>

str_int(n) == IF n < 0 THEN <<"-">> \o str_nat(-n) ELSE str_nat(n)

DigitValue(c) == CHOOSE d \in 0..9 : DigitChars[d + 1] = c

RECURSIVE nat_of(_)
nat_of(t) ==
    IF Len(t) = 1 THEN DigitValue(t[1])
    ELSE nat_of(SubSeq(t, 1, Len(t) - 1)) * 10 + DigitValue(t[Len(t)])

\* int(state.readline()) on a line that holds an integer: the newline is
\* white space to int()
int_line(line) ==
    LET t == SelectSeq(line, LAMBDA c : c # "\n")
    IN IF t[1] = "-" THEN -nat_of(Tail(t)) ELSE nat_of(t)

\* the three lines Save State writes
state_text(n, ix, lbls) ==
    <<str_int(n) \o <<"\n">>, str_int(ix) \o <<"\n">>, str_list(lbls) \o <<"\n">>>>

\* text.replace(c, "")
remove_char(text, c) == SelectSeq(text, LAMBDA x : x # c)

\* Fault: [1:-1], which leaves the closing bracket.
slice_labels_raw_short(text) == SubSeq(text, 2, Len(text) - 1)

\* labels_raw[1:-2]
slice_labels_raw(text) == SubSeq(text, 2, Len(text) - 2)

\* text.split(sep): a list of texts, one more than there are separators
RECURSIVE split(_, _)
split(text, sep) ==
    IF \A i \in 1..Len(text) : text[i] # sep THEN <<text>>
    ELSE LET i == CHOOSE i \in 1..Len(text) :
                      text[i] = sep /\ \A j \in 1..(i - 1) : text[j] # sep
         IN <<SubSeq(text, 1, i - 1)>> \o split(SubSeq(text, i + 1, Len(text)), sep)

\* the list labels_raw of the Load State handler
labels_raw_of(line) ==
    split(slice_labels_raw(remove_char(remove_char(line, " "), "'")), ",")

\* `match entry`: the entries that append, and what they append
EntryTexts ==
    {<<"N", "o", " ", "F", "i", "r", "e">>, <<"N", "o", "F", "i", "r", "e">>,
     <<"F", "i", "r", "e">>, <<"N", "o", "n", "e">>}

EntryTextLabel(e) ==
    IF e \in {<<"N", "o", " ", "F", "i", "r", "e">>, <<"N", "o", "F", "i", "r", "e">>}
       THEN "No Fire"
    ELSE IF e = <<"F", "i", "r", "e">> THEN "Fire"
    ELSE Unlabeled

\* the list parsed_labels, 1-based, from the labels line as a text
parsed_labels_of_text(line) ==
    LET known == SelectSeq(labels_raw_of(line), LAMBDA e : e \in EntryTexts)
    IN [i \in 1..Len(known) |-> EntryTextLabel(known[i])]

\* what sg.popup_yes_no returns: "Yes", "No", or None when it is closed
Confirms == {"Yes", "No", "None"}

\* `if confirm:` a non-empty string is true, None is not
Truthy(confirm) == confirm # "None"

\* event == '-SAVE_STATE-'
SaveState(confirm) ==
    /\ pc = "loop"
    /\ nevents < budget.events
    /\ nevents' = nevents + 1
    /\ save_state' =
          IF Truthy(confirm)
             THEN [text |-> state_text(N, index, labels),
                   saved |-> [index |-> index, labels |-> labels]]
             ELSE save_state
    /\ pc' = "tick"
    /\ last' = [event |-> "-SAVE_STATE-", result |-> confirm]
    /\ UNCHANGED <<N, BUFF_RADIUS, budget, drain, index, labels, q, unfinished_tasks,
                   pool, stacks, cache, nfail>>

\* event == '-LOAD_STATE-' with ./save_state.txt, as Save State wrote it,
\* selected
LoadSaved ==
    /\ pc = "loop"
    /\ nevents < budget.events
    /\ save_state # NoFile
    /\ nevents' = nevents + 1
    /\ LET num_files == int_line(save_state.text[1])
           ix == int_line(save_state.text[2])
           parsed == parsed_labels_of_text(save_state.text[3])
       IN IF num_files # N
             THEN /\ pc' = "loop"
                  /\ last' = [event |-> "-LOAD_STATE-", result |-> "mismatch"]
                  /\ UNCHANGED <<index, labels, q, unfinished_tasks, cache>>
             ELSE IF Len(parsed) # Cardinality(DOMAIN labels)
             THEN /\ index' = ix
                  /\ pc' = "loop"
                  /\ last' = [event |-> "-LOAD_STATE-", result |-> "badlabels"]
                  /\ UNCHANGED <<labels, q, unfinished_tasks, cache>>
             ELSE /\ index' = ix
                  /\ labels' = [i \in 0..(Len(parsed) - 1) |-> parsed[i + 1]]
                  /\ loaded_rgb_images' =
                         ClearKind(LoadStateClearedKinds, "rgb", loaded_rgb_images, ix)
                  /\ loaded_ir_images' =
                         ClearKind(LoadStateClearedKinds, "ir", loaded_ir_images, ix)
                  /\ loaded_tiff_vals' =
                         ClearKind(LoadStateClearedKinds, "tiff", loaded_tiff_vals, ix)
                  /\ q' = q \o LoadStateTasks(ix)
                  /\ unfinished_tasks' = unfinished_tasks + Len(LoadStateTasks(ix))
                  /\ pc' = "tick"
                  /\ last' = [event |-> "-LOAD_STATE-", result |-> "ok"]
    /\ UNCHANGED <<config, save_state, drain, pool, stacks, nfail>>

\* ---------------------------------------------------------------- closing
\* Fault: the new items go to the head of the queue.
put_all_first(qq, items) == items \o qq

\* q.put(item) for each item: queue.Queue is first in, first out
put_all(qq, items) == qq \o items

\* Fault: the threads are joined without a (None, None, None) being put.
stop_tasks_none == <<>>

\* Fault: one (None, None, None) less than there are threads.
stop_tasks_one_short == [w \in 1..(worker_pool - 1) |-> StopTask]

\* for i in threads: q.put((None, None, None))
stop_tasks == [w \in Workers |-> StopTask]

\* event == sg.WIN_CLOSED: break; window.close(); stop_workers(workers) puts
\* one (None, None, None) per thread
WinClosed ==
    /\ pc = "loop"
    /\ budget.close
    /\ q' = put_all(q, stop_tasks)
    /\ unfinished_tasks' = unfinished_tasks + Len(stop_tasks)
    /\ pc' = "stopping"
    /\ UNCHANGED <<config, save_state, drain, index, labels, pool, stacks, cache, last,
                   nevents, nfail>>

\* for t in threads: t.join() has gone through every thread
stop_workers_join ==
    /\ pc = "stopping"
    /\ \A w \in Workers : wpc[w] \in {"exited", "dead"}
    /\ pc' = "done"
    /\ UNCHANGED <<config, save_state, drain, index, labels, q, unfinished_tasks, pool,
                   stacks, cache, last, nevents, nfail>>

\* ------------------------------------------------------------------ Next
Next ==
    \/ \E w \in Workers : img_loader_iteration(w)
    \/ JoinReturn
    \/ Timeout
    \/ Reconcile
    \/ \E d \in {-1, 1} : ArrowKey(d)
    \/ \E k \in {"1", "2", "3"} : LabelKey(k)
    \/ \E v \in {"Fire", "No Fire", "Unlabeled"} : ApplyToAll(v)
    \/ \E hot \in SUBSET Ids : TempLabel(hot)
    \/ \E t \in GotoInputs : GoTo(t)
    \/ \E x \in GotoNonIntegers : GoToNotInt(x)
    \/ \E f \in StateFiles : LoadState(f)
    \/ \E line \in IntLines : LoadStateNotInt(line)
    \/ WinClosed
    \/ stop_workers_join

Spec == Init /\ [][Next]_vars

\* ------------------------------------------- the loaders, step by step
\* The runs that follow each loader through q.get(), the decode with its
\* append, and q.task_done() as separate steps: the preload and q.join(), at
\* most one arrow key, at most one decode that raises, and the window closed
\* at any time, with stop_workers after it.
PoolBudgets == {[events |-> 1, failures |-> MaxFailures, close |-> TRUE]}

InitPool ==
    /\ N \in 1..PoolMaxN
    /\ BUFF_RADIUS \in 0..PoolMaxR
    /\ pc = "join"
    /\ index = 0
    /\ labels = [i \in 0..(N - 1) |-> Unlabeled]
    /\ q = starting_images_of(N, BUFF_RADIUS)
    /\ unfinished_tasks = Len(starting_images_of(N, BUFF_RADIUS))
    /\ wpc = [w \in Workers |-> "get"]
    /\ wtask = [w \in Workers |-> NoTask]
    /\ b_rgb = <<>> /\ b_ir = <<>> /\ b_tiff = <<>>
    /\ loaded_rgb_images = [i \in 0..(N - 1) |-> None]
    /\ loaded_ir_images = [i \in 0..(N - 1) |-> None]
    /\ loaded_tiff_vals = [i \in 0..(N - 1) |-> None]
    /\ last = [event |-> "start", result |-> "ok"]
    /\ nevents = 0
    /\ nfail = 0
    /\ budget \in PoolBudgets
    /\ save_state = NoFile
    /\ drain = NoDrain

NextPool ==
    \/ \E w \in Workers : img_loader_get(w)
    \/ \E w \in Workers : img_loader_append(w)
    \/ \E w \in Workers : img_loader_raise(w)
    \/ \E w \in Workers : img_loader_task_done(w)
    \/ JoinReturn
    \/ Timeout
    \/ Reconcile
    \/ \E d \in {-1, 1} : ArrowKey(d)
    \/ WinClosed
    \/ stop_workers_join

SpecPool == InitPool /\ [][NextPool]_vars

\* The same runs with the threads scheduled: a loader that can take a step
\* takes one (q.get() returns when the queue holds a task, a decode returns
\* or raises), and t.join() returns once its thread has ended.
SpecStop ==
    /\ InitPool
    /\ [][NextPool]_vars
    /\ \A w \in Workers : WF_vars(img_loader(w))
    /\ WF_vars(stop_workers_join)

\* ------------------------------------------------- navigation round trips
\* The runs that start where the preload, Go To 1 and the passes that follow
\* leave the tool once every result is in the cache (index 0, the window of
\* 0 loaded for the three kinds, queue and stacks empty), and then take
\* either Right then Left, or Go To `target` once or twice, every decode
\* returning.  The loaders are followed step by step in the runs of two
\* arrow keys (four tasks) and an iteration at a time in the runs of Go To
\* (up to 18 tasks).
NavBudgets ==
    {[events |-> MaxEvents, failures |-> 0, close |-> FALSE,
      nav |-> "steps", target |-> 0]}
    \cup {[events |-> e, failures |-> 0, close |-> FALSE,
           nav |-> "jump", target |-> t] : e \in 1..MaxEvents, t \in 1..N}

InitNav ==
    /\ N \in 1..MaxN
    /\ BUFF_RADIUS \in 0..MaxR
    /\ pc = "loop"
    /\ index = 0
    /\ labels = [i \in 0..(N - 1) |-> Unlabeled]
    /\ q = <<>>
    /\ unfinished_tasks = 0
    /\ wpc = [w \in Workers |-> "get"]
    /\ wtask = [w \in Workers |-> NoTask]
    /\ b_rgb = <<>> /\ b_ir = <<>> /\ b_tiff = <<>>
    /\ loaded_rgb_images =
          [i \in 0..(N - 1) |->
              IF CircularDistance(0, i) <= BUFF_RADIUS THEN Payload(<<i, "rgb">>) ELSE None]
    /\ loaded_ir_images =
          [i \in 0..(N - 1) |->
              IF CircularDistance(0, i) <= BUFF_RADIUS THEN Payload(<<i, "ir">>) ELSE None]
    /\ loaded_tiff_vals =
          [i \in 0..(N - 1) |->
              IF CircularDistance(0, i) <= BUFF_RADIUS THEN Payload(<<i, "tiff">>) ELSE None]
    /\ last = [event |-> "-GOTO-", result |-> "ok"]
    /\ nevents = 0
    /\ nfail = 0
    /\ budget \in NavBudgets
    /\ save_state = NoFile
    /\ drain = NoDrain

NextNav ==
    \/ \E w \in Workers : (budget.nav = "steps" /\ img_loader_get(w))
    \/ \E w \in Workers : (budget.nav = "steps" /\ img_loader_append(w))
    \/ \E w \in Workers : (budget.nav = "steps" /\ img_loader_task_done(w))
    \/ \E w \in Workers : (budget.nav = "jump" /\ img_loader_iteration(w))
    \/ Timeout
    \/ Reconcile
    \/ (budget.nav = "steps" /\ ArrowKey(IF nevents = 0 THEN 1 ELSE -1))
    \/ (budget.nav = "jump" /\ GoTo(budget.target))

SpecNav == InitNav /\ [][NextNav]_vars

\* ------------------------------------------------------- fair scheduling
\* The runs used for what must eventually happen: from the preload on, with
\* either one navigation event and every decode returning, or no event and
\* one decode raising; the window stays open.  A loader that can take a task
\* eventually does, q.join() returns once it can, and window.read keeps
\* returning, so that the passes of the main loop's tail keep coming.
LiveBudgets ==
    {[events |-> 1, failures |-> 0, close |-> FALSE],
     [events |-> 0, failures |-> MaxFailures, close |-> FALSE]}

InitLive ==
    /\ N \in 1..MaxN
    /\ BUFF_RADIUS \in 0..MaxR
    /\ pc = "join"
    /\ index = 0
    /\ labels = [i \in 0..(N - 1) |-> Unlabeled]
    /\ q = starting_images_of(N, BUFF_RADIUS)
    /\ unfinished_tasks = Len(starting_images_of(N, BUFF_RADIUS))
    /\ wpc = [w \in Workers |-> "get"]
    /\ wtask = [w \in Workers |-> NoTask]
    /\ b_rgb = <<>> /\ b_ir = <<>> /\ b_tiff = <<>>
    /\ loaded_rgb_images = [i \in 0..(N - 1) |-> None]
    /\ loaded_ir_images = [i \in 0..(N - 1) |-> None]
    /\ loaded_tiff_vals = [i \in 0..(N - 1) |-> None]
    /\ last = [event |-> "start", result |-> "ok"]
    /\ nevents = 0
    /\ nfail = 0
    /\ budget \in LiveBudgets
    /\ save_state = NoFile
    /\ drain = NoDrain

NextLive ==
    \/ \E w \in Workers : img_loader_iteration(w)
    \/ JoinReturn
    \/ Timeout
    \/ Reconcile
    \/ \E d \in {-1, 1} : ArrowKey(d)
    \/ \E t \in GotoInputs : GoTo(t)
    \/ \E f \in StateFiles : LoadState(f)

SpecLive ==
    /\ InitLive
    /\ [][NextLive]_vars
    /\ WF_vars(\E w \in Workers : img_loader_iteration(w))
    /\ WF_vars(JoinReturn)
    /\ WF_vars(Timeout)
    /\ WF_vars(Reconcile)

\* ------------------------------------------------ saving and loading back
\* The runs that start in the middle of a labeling session (any index, any
\* labels, the visual and thermal windows of the index loaded, nothing in
\* flight, no state file yet) and take up to StateEvents events among Save
\* State, label keys, arrow keys and Load State with the file saved.
StateBudgets == {[events |-> StateEvents, failures |-> 0, close |-> FALSE]}

LabelValues == {"Fire", "No Fire", Unlabeled}

InitState ==
    /\ N \in 1..StateMaxN
    /\ BUFF_RADIUS \in 0..MaxR
    /\ pc = "loop"
    /\ index \in 0..(N - 1)
    /\ labels \in [0..(N - 1) -> LabelValues]
    /\ q = <<>>
    /\ unfinished_tasks = 0
    /\ wpc = [w \in Workers |-> "get"]
    /\ wtask = [w \in Workers |-> NoTask]
    /\ b_rgb = <<>> /\ b_ir = <<>> /\ b_tiff = <<>>
    /\ loaded_rgb_images =
          [i \in 0..(N - 1) |->
              IF CircularDistance(index, i) <= BUFF_RADIUS
                 THEN Payload(<<i, "rgb">>) ELSE None]
    /\ loaded_ir_images =
          [i \in 0..(N - 1) |->
              IF CircularDistance(index, i) <= BUFF_RADIUS
                 THEN Payload(<<i, "ir">>) ELSE None]
    /\ loaded_tiff_vals = [i \in 0..(N - 1) |-> None]
    /\ last = [event |-> "1", result |-> "ok"]
    /\ nevents = 0
    /\ nfail = 0
    /\ budget \in StateBudgets
    /\ save_state = NoFile
    /\ drain = NoDrain

NextState ==
    \/ \E w \in Workers : img_loader_iteration(w)
    \/ Timeout
    \/ Reconcile
    \/ \E c \in Confirms : SaveState(c)
    \/ \E k \in {"1", "2", "3"} : LabelKey(k)
    \/ \E d \in {-1, 1} : ArrowKey(d)
    \/ LoadSaved

SpecState == InitState /\ [][NextState]_vars

\* ---------------------------------------------------- the two scenarios
\* The runs with BUFF_RADIUS = 7 that start where the preload and the passes
\* after it leave the tool (index 0, the visual and thermal windows of 0
\* loaded, no scalar slot loaded, queue and stacks empty): either two arrow
\* keys among WalkN image pairs, with the loaders followed step by step, or
\* Go To 1 and then, while tasks of it are still queued, Go To SecondTarget
\* among JumpN image pairs, the loaders working through the queue BatchSize
\* tasks at a time.
ScenarioBudgets ==
    {[events |-> MaxEvents, failures |-> 0, close |-> FALSE, nav |-> "steps", n |-> WalkN],
     [events |-> MaxEvents, failures |-> 0, close |-> FALSE, nav |-> "jump", n |-> JumpN]}

InitScenario ==
    /\ budget \in ScenarioBudgets
    /\ N = budget.n
    /\ BUFF_RADIUS = SourceRadius
    /\ pc = "loop"
    /\ index = 0
    /\ labels = [i \in 0..(N - 1) |-> Unlabeled]
    /\ q = <<>>
    /\ unfinished_tasks = 0
    /\ wpc = [w \in Workers |-> "get"]
    /\ wtask = [w \in Workers |-> NoTask]
    /\ b_rgb = <<>> /\ b_ir = <<>> /\ b_tiff = <<>>
    /\ loaded_rgb_images =
          [i \in 0..(N - 1) |->
              IF CircularDistance(0, i) <= BUFF_RADIUS THEN Payload(<<i, "rgb">>) ELSE None]
    /\ loaded_ir_images =
          [i \in 0..(N - 1) |->
              IF CircularDistance(0, i) <= BUFF_RADIUS THEN Payload(<<i, "ir">>) ELSE None]
    /\ loaded_tiff_vals = [i \in 0..(N - 1) |-> None]
    /\ last = [event |-> "start", result |-> "ok"]
    /\ nevents = 0
    /\ nfail = 0
    /\ save_state = NoFile
    /\ drain = NoDrain

NextScenario ==
    \/ \E w \in Workers : (budget.nav = "steps" /\ img_loader_get(w))
    \/ \E w \in Workers : (budget.nav = "steps" /\ img_loader_append(w))
    \/ \E w \in Workers : (budget.nav = "steps" /\ img_loader_task_done(w))
    \/ (budget.nav = "jump" /\ img_loader_batch)
    \/ Timeout
    \/ Reconcile
    \/ \E d \in {-1, 1} : (budget.nav = "steps" /\ ArrowKey(d))
    \/ (budget.nav = "jump" /\ nevents = 0 /\ GoTo(1))
    \/ (budget.nav = "jump" /\ nevents > 0 /\ q # <<>> /\ GoTo(SecondTarget))

SpecScenario == InitScenario /\ [][NextScenario]_vars

\* ------------------------------------- the loop tail, one list step at a time
\* The drain loops with the loaders running: `for id, img in b` reads the
\* item at the iterator's position and advances; the body writes the slot,
\* then b.remove((id, img)) takes the first equal item off the list. A loader
\* may append between any two of these steps.
DrainKinds == <<"rgb", "ir", "tiff">>
DrainPc(k) == <<"drain_rgb", "drain_ir", "drain_tiff">>[k]
Drained(k) == <<b_rgb, b_ir, b_tiff>>[k]

\* Fault: remove() taking every equal item off the list.
RemoveEvery(b, x) == SelectSeq(b, LAMBDA e : e # x)

\* b.remove(x)
list_remove(b, x) == RemoveFirst(b, x)

\* "Actions completed regardless of event" begins: iter(b_rgb)
drain_begin ==
    /\ pc \in {"loop", "tick"}
    /\ pc' = DrainPc(1)
    /\ drain' = NoDrain
    /\ UNCHANGED <<config, save_state, index, labels, q, unfinished_tasks, pool,
                   stacks, cache, last, nevents, nfail>>

\* next() of the list iterator: the item at the position, or the end of this
\* loop; after the last drain loop the clear loops and the display update
drain_next(k) ==
    /\ pc = DrainPc(k)
    /\ drain.item = NoItem
    /\ IF drain.i <= Len(Drained(k))
          THEN /\ drain' = [i |-> drain.i + 1, item |-> Drained(k)[drain.i],
                            placed |-> FALSE]
               /\ UNCHANGED <<pc, cache>>
          ELSE /\ drain' = NoDrain
               /\ IF k < Len(DrainKinds)
                     THEN /\ pc' = DrainPc(k + 1)
                          /\ UNCHANGED cache
                     ELSE /\ loaded_rgb_images' =
                                 ClearKind(ClearedKinds, "rgb", loaded_rgb_images, index)
                          /\ loaded_ir_images' =
                                 ClearKind(ClearedKinds, "ir", loaded_ir_images, index)
                          /\ loaded_tiff_vals' =
                                 ClearKind(ClearedKinds, "tiff", loaded_tiff_vals, index)
                          /\ pc' = IF InPyRange(index) THEN "loop" ELSE "crashed"
    /\ UNCHANGED <<config, save_state, index, labels, q, unfinished_tasks, pool,
                   stacks, last, nevents, nfail>>

\* the slot id after the body's if/else
PlaceItem(loaded, item) ==
    IF CircularDistance(index, item[1]) <= BUFF_RADIUS
       THEN [loaded EXCEPT ![item[1]] = item[2]]
       ELSE [loaded EXCEPT ![item[1]] = None]

\* loaded[id] = img, or loaded[id] = None outside the radius
drain_place(k) ==
    /\ pc = DrainPc(k)
    /\ drain.item # NoItem
    /\ ~drain.placed
    /\ loaded_rgb_images' =
          IF k = 1 THEN PlaceItem(loaded_rgb_images, drain.item) ELSE loaded_rgb_images
    /\ loaded_ir_images' =
          IF k = 2 THEN PlaceItem(loaded_ir_images, drain.item) ELSE loaded_ir_images
    /\ loaded_tiff_vals' =
          IF k = 3 THEN PlaceItem(loaded_tiff_vals, drain.item) ELSE loaded_tiff_vals
    /\ drain' = [drain EXCEPT !.placed = TRUE]
    /\ UNCHANGED <<config, save_state, pc, index, labels, q, unfinished_tasks, pool,
                   stacks, last, nevents, nfail>>

\* b.remove((id, img))
drain_remove(k) ==
    /\ pc = DrainPc(k)
    /\ drain.item # NoItem
    /\ drain.placed
    /\ b_rgb' = IF k = 1 THEN list_remove(b_rgb, drain.item) ELSE b_rgb
    /\ b_ir' = IF k = 2 THEN list_remove(b_ir, drain.item) ELSE b_ir
    /\ b_tiff' = IF k = 3 THEN list_remove(b_tiff, drain.item) ELSE b_tiff
    /\ drain' = [drain EXCEPT !.item = NoItem, !.placed = FALSE]
    /\ UNCHANGED <<config, save_state, pc, index, labels, q, unfinished_tasks, pool,
                   cache, last, nevents, nfail>>

\* the main thread in the loop tail
drain_step ==
    \/ drain_begin
    \/ \E k \in DOMAIN DrainKinds : drain_next(k)
    \/ \E k \in DOMAIN DrainKinds : drain_place(k)
    \/ \E k \in DOMAIN DrainKinds : drain_remove(k)

\* The runs explored with the loop tail taken step by step: a session after
\* startup, DrainEvents navigation events, every decode returning.
DrainBudgets == {[events |-> DrainEvents, failures |-> 0, close |-> FALSE]}

InitDrain ==
    /\ N \in 1..DrainMaxN
    /\ BUFF_RADIUS \in 0..MaxR
    /\ pc = "loop"
    /\ index = 0
    /\ labels = [i \in 0..(N - 1) |-> Unlabeled]
    /\ q = <<>>
    /\ unfinished_tasks = 0
    /\ wpc = [w \in Workers |-> "get"]
    /\ wtask = [w \in Workers |-> NoTask]
    /\ b_rgb = <<>> /\ b_ir = <<>> /\ b_tiff = <<>>
    /\ loaded_rgb_images =
          [i \in 0..(N - 1) |->
              IF CircularDistance(0, i) <= BUFF_RADIUS THEN Payload(<<i, "rgb">>) ELSE None]
    /\ loaded_ir_images =
          [i \in 0..(N - 1) |->
              IF CircularDistance(0, i) <= BUFF_RADIUS THEN Payload(<<i, "ir">>) ELSE None]
    /\ loaded_tiff_vals = [i \in 0..(N - 1) |-> None]
    /\ last = [event |-> "start", result |-> "ok"]
    /\ nevents = 0
    /\ nfail = 0
    /\ budget \in DrainBudgets
    /\ save_state = NoFile
    /\ drain = NoDrain

NextDrain ==
    \/ \E w \in Workers : img_loader_get(w)
    \/ \E w \in Workers : img_loader_append(w)
    \/ \E w \in Workers : img_loader_task_done(w)
    \/ drain_begin
    \/ \E k \in DOMAIN DrainKinds : drain_next(k)
    \/ \E k \in DOMAIN DrainKinds : drain_place(k)
    \/ \E k \in DOMAIN DrainKinds : drain_remove(k)
    \/ \E d \in {-1, 1} : ArrowKey(d)
    \/ \E t \in {1} : GoTo(t)

\* The loop tail runs again every 500 ms whatever the user does, and a
\* loader thread that can take a step is scheduled.
SpecDrain ==
    /\ InitDrain
    /\ [][NextDrain]_vars
    /\ WF_vars(drain_step)
    /\ \A w \in Workers :
          WF_vars(img_loader_get(w) \/ img_loader_append(w) \/ img_loader_task_done(w))

\* ======================================================================
\* Properties
\* ======================================================================
\* The window of the spec: the indices within circular distance BUFF_RADIUS
\* of ix, counted by walking d places around the circle.
WindowOf(ix) == {(ix + d) % N : d \in (-BUFF_RADIUS)..BUFF_RADIUS}

\* the slots of s that hold a payload, after the step
PopulatedNext(s) ==
    \/ loaded_rgb_images'[s] # None
    \/ loaded_ir_images'[s] # None
    \/ loaded_tiff_vals'[s] # None

\* the tasks a step put on the queue
Enqueued == SubSeq(q', Len(q) + 1, Len(q'))

\* the full window of tasks of kind k around ix, in the order d = -R..R
FullWindowOfKind(ix, k) ==
    [j \in 1..(2 * BUFF_RADIUS + 1) |-> <<(ix + (j - BUFF_RADIUS - 1)) % N, k>>]

EnqueuedFullWindow(ix) ==
    /\ Len(q') = Len(q) + 3 * (2 * BUFF_RADIUS + 1)
    /\ SubSeq(q', 1, Len(q)) = q
    /\ \A k \in Kinds :
          SelectSeq(Enqueued, LAMBDA e : e[2] = k) = FullWindowOfKind(ix, k)

\* C1: at the end of every reconciliation tick, every populated slot of every
\* kind (visual, thermal, scalar-stats) is within BUFF_RADIUS of the viewing
\* index.
C1_PopulatedSlotsInWindowAfterTick ==
    [][(Timeout \/ Reconcile) =>
          \A s \in Ids : PopulatedNext(s) => s \in WindowOf(index')]_vars

\* C2: a Step enqueues exactly one task per kind (visual, thermal, scalar),
\* all for (old + R + 1) mod N on Step(+1) and (old - R - 1) mod N on Step(-1).
C2_StepEnqueuesOneTaskPerKind ==
    [][\A d \in {-1, 1} : ArrowKey(d) =>
          LET target == (index + d * (BUFF_RADIUS + 1)) % N
          IN /\ Len(Enqueued) = 3
             /\ SubSeq(q', 1, Len(q)) = q
             /\ \A k \in Kinds : \E j \in 1..3 : Enqueued[j] = <<target, k>>]_vars

\* C3: Step(+1) sets the index to (old + 1) mod N and Step(-1) to
\* (old - 1) mod N: forward from N-1 gives 0, back from 0 gives N-1, and the
\* index is in [0, N) after a step.
C3_StepIndexIsCircular ==
    [][\A d \in {-1, 1} : ArrowKey(d) =>
          /\ index' \in 0..(N - 1)
          /\ index' = (index + d) % N
          /\ (index = N - 1 /\ d = 1) => index' = 0
          /\ (index = 0 /\ d = -1) => index' = N - 1
          /\ (index + d \in 0..(N - 1)) => index' = index + d]_vars

\* C3 witness: a step back from 0 and then a step forward from N-1, which
\* has just wrapped to 0 (the queue ends with the tasks of the two steps).
C3_Witness ==
    /\ pc = "tick" /\ last.event = "Right:39" /\ index = 0 /\ N >= 3
    /\ Len(q) >= 4
    /\ SubSeq(q, Len(q) - 3, Len(q)) =
          <<<<(N - BUFF_RADIUS - 1) % N, "rgb">>, <<(N - BUFF_RADIUS - 1) % N, "ir">>,
            <<BUFF_RADIUS % N, "rgb">>, <<BUFF_RADIUS % N, "ir">>>>

\* C4: a Jump with target in [1, N] sets the index to target - 1 and enqueues,
\* per kind, exactly the 2R+1 tasks for (index + d) mod N, d = -R..R.
C4_JumpEnqueuesFullWindow ==
    [][\A t \in GotoInputs : (GoTo(t) /\ t \in 1..N) =>
          /\ index' = t - 1
          /\ EnqueuedFullWindow(t - 1)]_vars

\* C4 witness: a Jump to the last position, whose window wraps around the
\* end of a sequence longer than the window.
C4_Witness ==
    /\ pc = "tick" /\ last = [event |-> "-GOTO-", result |-> "ok"]
    /\ index = N - 1 /\ N > 2 * BUFF_RADIUS + 1 /\ BUFF_RADIUS >= 1
    /\ Len(q) >= 3 * (2 * BUFF_RADIUS + 1)

\* C5: right after a successful Jump, before the next reconciliation pass, no
\* slot of any kind outside the window of the new index is populated.
C5_JumpEvictsImmediately ==
    [][\A t \in GotoInputs : (GoTo(t) /\ t \in 1..N) =>
          \A s \in Ids : PopulatedNext(s) => s \in WindowOf(index')]_vars

\* C6: a Jump whose integer target is outside [1, N] is rejected and leaves
\* the index, the three cache arrays, the labels and the queue as they were.
C6_RejectedJumpChangesNothing ==
    [][\A t \in GotoInputs : (GoTo(t) /\ t \notin 1..N) =>
          /\ last'.result = "rejected"
          /\ UNCHANGED <<index, cache, labels, q>>]_vars

\* C6 witness: a Jump has just been rejected while the cache holds payloads
\* and tasks are queued.
C6_Witness ==
    /\ pc = "loop" /\ last = [event |-> "-GOTO-", result |-> "rejected"]
    /\ \E s \in Ids : loaded_rgb_images[s] # None
    /\ q # <<>>

\* C7: a restore whose persisted sequence length differs from N fails, leaves
\* the index and the labels as they were and enqueues nothing.
C7_MismatchedRestoreFails ==
    [][\A f \in StateFiles : (LoadState(f) /\ f.num_files # N) =>
          /\ last'.result = "mismatch"
          /\ UNCHANGED <<index, labels, q>>]_vars

\* C7 witness: a restore has just failed on the sequence length, from a file
\* whose index and labels differ from the current ones.
C7_Witness ==
    /\ pc = "loop" /\ last = [event |-> "-LOAD_STATE-", result |-> "mismatch"]
    /\ index # N - 1
    /\ \E i \in Ids : labels[i] = Unlabeled

\* The entries of a well-formed labels line.
WellFormedEntries == {"'Fire'", "'No Fire'", "None"}

Malformed(f) ==
    \/ Len(f.labels) # N
    \/ \E i \in 1..Len(f.labels) : f.labels[i] \notin WellFormedEntries

\* C8: a restore of a state with the right length whose label vector is
\* malformed (a count other than N, or an unknown token) leaves the index,
\* the labels and the queue as they were.
C8_MalformedRestoreChangesNothing ==
    [][\A f \in StateFiles : (LoadState(f) /\ f.num_files = N /\ Malformed(f)) =>
          /\ last'.result # "ok"
          /\ UNCHANGED <<index, labels, q>>]_vars

\* the label an entry of a well-formed labels line stands for
Denoted(e) ==
    IF e = "'Fire'" THEN "Fire" ELSE IF e = "'No Fire'" THEN "No Fire" ELSE Unlabeled

C10_LoaderSurvivesDecodeFailure ==
    \A w \in Workers : wpc[w] # "dead"

\* the number of times x occurs in the sequence seq
CountIn(seq, x) == Cardinality({j \in 1..Len(seq) : seq[j] = x})

\* the loaders that have left their loop on (None, None, None)
Exited == {w \in Workers : wpc[w] = "exited"}

\* C11: stop_workers on a pool of worker_pool loaders puts exactly
\* worker_pool sentinels (none is in the queue and no loader has left before
\* it is called); a sentinel taken ends exactly the loader that took it, so
\* the loaders that left and the sentinels still queued add up to
\* worker_pool; and stop_workers returns only when no loader is left running
\* or blocked on q.get(): all have left, on a sentinel each when no decode
\* raised.
C11_StopEndsEveryWorker ==
    /\ pc \notin {"stopping", "done"} => (CountIn(q, StopTask) = 0 /\ Exited = {})
    /\ pc \in {"stopping", "done"} =>
          Cardinality(Exited) + CountIn(q, StopTask) = worker_pool
    /\ pc = "done" =>
          /\ \A w \in Workers : wpc[w] \in {"exited", "dead"}
          /\ nfail = 0 => (Exited = Workers /\ q = <<>>)

\* C11 witness: stop_workers has returned after an arrow key, every loader
\* having taken one sentinel.
C11_Witness ==
    pc = "done" /\ Exited = Workers /\ q = <<>> /\ nevents = 1

\* C12: sentinels are queued behind the tasks pending when stop_workers is
\* called, so when every loader has ended no load task is left in the queue
\* or in a loader's hands, and every load task ever put was followed by its
\* append and task_done(), save the ones whose decode raised: the tasks
\* without task_done() are the worker_pool sentinels and those.
C12_StopDrainsPendingTasks ==
    (\A w \in Workers : wpc[w] \in {"exited", "dead"}) =>
        /\ \A j \in 1..Len(q) : q[j] = StopTask
        /\ unfinished_tasks = worker_pool + nfail

\* C12 witness: the pool has ended without a decode raising, and both results
\* of the arrow key's tasks are on the stacks, not yet moved to the cache.
C12_Witness ==
    /\ pc = "done" /\ nfail = 0 /\ nevents = 1
    /\ b_rgb # <<>> /\ b_ir # <<>>

\* the output stack of a kind
StackOf(kind) ==
    CASE kind = "rgb" -> b_rgb [] kind = "ir" -> b_ir [] OTHER -> b_tiff

\* C13: q.join() returns (unfinished_tasks is 0) only when every task put
\* before it has been taken and processed: the queue is empty, no loader
\* holds a task, and the result of each preload task is on the stack of its
\* kind, in whatever order the loaders ran.
C13_JoinReturnsAfterProcessing ==
    (pc = "join" /\ unfinished_tasks = 0) =>
        LET start == starting_images_of(N, BUFF_RADIUS)
        IN /\ q = <<>>
           /\ \A w \in Workers : wpc[w] = "get"
           /\ Len(b_rgb) + Len(b_ir) + Len(b_tiff) = Len(start)
           /\ \A j \in 1..Len(start) :
                 CountIn(StackOf(start[j][2]), <<start[j][1], Payload(start[j])>>)
                     = CountIn(start, start[j])

\* C13 witness: q.join() is about to return with the results of a five-image
\* window on the stacks in an order other than the order of the tasks.
C13_Witness ==
    /\ pc = "join" /\ unfinished_tasks = 0
    /\ N = 5 /\ BUFF_RADIUS = 2
    /\ b_rgb[1][1] # starting_images_of(N, BUFF_RADIUS)[1][1]

\* C14: with every decode returning, at the first display update (the first
\* pass of the main loop's tail, on a timeout) the visual slot and the
\* thermal slot of every index within BUFF_RADIUS of 0 hold a payload.
C14_InitialWindowPopulatedAtFirstRender ==
    [][(Timeout /\ nevents = 0 /\ nfail = 0) =>
          \A s \in Ids : CircularDistance(0, s) <= BUFF_RADIUS =>
              (loaded_rgb_images'[s] # None /\ loaded_ir_images'[s] # None)]_vars

\* C15: at session start the index is 0 and, when q.join() returns, a task
\* for each of the 2R+1 window positions around 0 has been processed for each
\* of the three kinds: its result is on the stack of that kind.
C15_StartProcessesFullWindowPerKind ==
    [][JoinReturn =>
          /\ index = 0
          /\ \A k \in Kinds : \A s \in WindowOf(0) :
                \E j \in 1..Len(StackOf(k)) : StackOf(k)[j][1] = s]_vars

\* C16: one pass of the main loop's tail, with no loader appending during
\* it, leaves each of the three stacks empty.
C16_PassDrainsStacksEntirely ==
    [][(Timeout \/ Reconcile) =>
          (b_rgb' = <<>> /\ b_ir' = <<>> /\ b_tiff' = <<>>)]_vars

\* the cache array of a kind
CacheOf(kind) ==
    CASE kind = "rgb" -> loaded_rgb_images
      [] kind = "ir" -> loaded_ir_images
      [] OTHER -> loaded_tiff_vals

\* the results a step took off a stack: those with fewer copies after it
TakenOff(b, bn) ==
    {b[j] : j \in {i \in 1..Len(b) : CountIn(b, b[i]) > CountIn(bn, b[i])}}

\* C17: a result a pass takes off a stack for an index within BUFF_RADIUS of
\* the viewing index is in its cache slot at the end of that pass: the clear
\* loops after the drain loops do not remove it.
C17_DrainedInWindowSurvivesPass ==
    [][(Timeout \/ Reconcile) =>
          \A k \in Kinds : \A x \in TakenOff(StackOf(k), StackOf(k)') :
              CircularDistance(index, x[1]) <= BUFF_RADIUS =>
                  CacheOf(k)'[x[1]] = x[2]]_vars

\* C17 witness: after a Go To and a pass, the slot next to the viewing index
\* holds the payloads that pass took off the stacks, for all three kinds.
C17_Witness ==
    /\ pc = "loop" /\ last = [event |-> "-GOTO-", result |-> "ok"]
    /\ BUFF_RADIUS = 1 /\ N >= 3 /\ index \in Ids
    /\ \A k \in Kinds : CacheOf(k)[(index + 1) % N] # None
    /\ loaded_tiff_vals[index] = None

\* nothing is in flight: the queue and the stacks are empty, every loader is
\* blocked on q.get() and the main loop is at window.read
Quiescent ==
    /\ pc = "loop" /\ q = <<>>
    /\ b_rgb = <<>> /\ b_ir = <<>> /\ b_tiff = <<>>
    /\ \A w \in Workers : wpc[w] = "get"

\* the slots of a kind that hold a payload
PopulatedSet(kind) == {s \in Ids : CacheOf(kind)[s] # None}

\* C18: Right then Left from a state whose window is loaded for every kind
\* and whose queue and stacks are empty gives, once every task is decoded
\* and every result moved to the cache, the index and, for every kind, the
\* set of populated slots of before the two steps (the window of 0).
C18_StepRoundTripRestoresSlots ==
    (budget.nav = "steps" /\ nevents = 2 /\ Quiescent) =>
        /\ index = 0
        /\ \A k \in Kinds : PopulatedSet(k) = WindowOf(0)

\* C18 witness: the round trip is over and nothing is in flight, in a
\* sequence longer than the window, where each step evicted a slot.
C18_Witness ==
    /\ budget.nav = "steps" /\ nevents = 2 /\ Quiescent
    /\ last.event = "Left:37"
    /\ BUFF_RADIUS = 1 /\ N > 2 * BUFF_RADIUS + 1

\* C19: Go To t once and Go To t twice in a row from the same state give,
\* once the queue is drained and the results are in the cache, the same
\* index t - 1 and the same cache: the visual and thermal payloads of the
\* window of t - 1 only, and the scalar payloads of that window and of the
\* window before.
C19_JumpTwiceSameCacheAsOnce ==
    (budget.nav = "jump" /\ nevents = budget.events /\ Quiescent) =>
        /\ index = budget.target - 1
        /\ PopulatedSet("rgb") = WindowOf(budget.target - 1)
        /\ PopulatedSet("ir") = WindowOf(budget.target - 1)
        /\ PopulatedSet("tiff") = WindowOf(0) \cup WindowOf(budget.target - 1)
        /\ \A k \in Kinds : \A s \in PopulatedSet(k) :
              CacheOf(k)[s] = Payload(<<s, k>>)

\* C19 witness: two Go To to the same target have been handled and nothing is
\* in flight; the target's window is not the window before.
C19_Witness ==
    /\ budget.nav = "jump" /\ budget.events = 2 /\ nevents = 2 /\ Quiescent
    /\ BUFF_RADIUS = 1 /\ N > 2 * BUFF_RADIUS + 1 /\ index = 2

\* C20: Go To t handled right after a successful Go To t (no other event in
\* between) adds no task: the first put one full window of 2R+1 tasks per
\* kind on the queue (C4), and the two together are to put no more than that.
C20_JumpTwiceEnqueuesOneWindow ==
    [][\A t \in GotoInputs :
          (/\ GoTo(t) /\ GotoValid(t)
           /\ last = [event |-> "-GOTO-", result |-> "ok"]
           /\ index = GotoIndex(t)) => q' = q]_vars

\* C21: among 20 image pairs with radius 7 and index 0, Right moves to index
\* 1 and enqueues exactly one task per kind, for index 9; the pass that
\* follows leaves slot 12 empty; and once the tasks are decoded and their
\* results moved, slot 9 holds a payload, for every kind.
C21_WalkStepFrom0 ==
    [][(budget.nav = "steps" /\ N = 20 /\ BUFF_RADIUS = 7) =>
          /\ (ArrowKey(1) /\ nevents = 0) =>
                /\ index = 0 /\ index' = 1
                /\ Len(Enqueued) = 3
                /\ \A k \in Kinds : \E j \in 1..Len(Enqueued) : Enqueued[j] = <<9, k>>
          /\ (Reconcile /\ nevents = 1 /\ last.event = "Right:39") =>
                \A k \in Kinds : CacheOf(k)'[12] = None
          /\ (Quiescent' /\ nevents' = 1 /\ last'.event = "Right:39") =>
                \A k \in Kinds : CacheOf(k)'[9] # None]_vars

\* C22: among 100 image pairs with radius 7, after Go To 1 and then Go To 50
\* while tasks of the first are still queued, once the queue is drained and
\* the results are moved to the cache, only slots within the radius of index
\* 49 hold a payload, for every kind.
C22_SecondJumpLeavesNoResidue ==
    (budget.nav = "jump" /\ N = 100 /\ nevents = 2 /\ Quiescent) =>
        /\ index = 49
        /\ \A k \in Kinds : \A s \in PopulatedSet(k) :
              CircularDistance(49, s) <= BUFF_RADIUS

\* C23: the viewing index is in [0, N) in every reachable state, whatever
\* arrow keys, Go To and restores came before, a restore from a file with
\* the right length and any stored index included.
C23_IndexInRange == index \in 0..(N - 1)

\* C24: no Go To or restore input ends the main loop: a Go To whose input is
\* no integer or is cancelled, and a restore whose length or index line is
\* no integer, leave the loop running with the index, the labels, the queue
\* and the cache as they were.
C24_BadInputKeepsLoopRunning ==
    [][((\E x \in GotoNonIntegers : GoToNotInt(x))
          \/ (\E line \in IntLines : LoadStateNotInt(line))) =>
          (pc' = "loop" /\ UNCHANGED <<index, labels, q, cache>>)]_vars

\* every slot within the radius of the viewing index holds a payload, for
\* each of the three kinds
WindowLoaded ==
    \A k \in Kinds : \A s \in Ids :
        CircularDistance(index, s) <= BUFF_RADIUS => CacheOf(k)[s] # None

\* C25: once navigation has stopped, with every decode returning, the loaders
\* scheduled fairly and the passes of the main loop going on, eventually and
\* from then on every slot within the radius of the viewing index holds a
\* payload for each of the three kinds.
C25_CacheEventuallyCoversWindow ==
    <>[](nfail > 0 \/ pc = "crashed" \/ WindowLoaded)

\* C26: also when a decode of the preload raises, q.join() eventually returns
\* and the main loop starts.
C26_StartupSurvivesDecodeFailure == <>(pc # "join")

\* C27: Save State followed, at any later time in the session (same N), by
\* Load State of the file saved is a round trip: the load succeeds, the index
\* is the index saved and the label vector is the one saved, position by
\* position, for every label vector over Fire, No Fire and unset.
C27_SaveLoadRoundTrip ==
    [][LoadSaved =>
          /\ last'.result = "ok"
          /\ index' = save_state.saved.index
          /\ labels' = save_state.saved.labels]_vars

\* C27 witness: the file saved has been loaded back over an index and labels
\* changed since the save (two events came between); the vector restored
\* holds the three values.
C27_Witness ==
    /\ last = [event |-> "-LOAD_STATE-", result |-> "ok"]
    /\ save_state # NoFile /\ nevents = 3 /\ N = 3
    /\ index = save_state.saved.index /\ labels = save_state.saved.labels
    /\ {labels[i] : i \in 0..(N - 1)} = LabelValues

\* C28: at the end of every pass of the main loop's tail, for each kind, the
\* number of slots that hold a payload is at most min(N, 2R+1).
C28_CacheBounded ==
    [][(Timeout \/ Reconcile) =>
          \A k \in Kinds :
              LET populated == {s \in Ids : CacheOf(k)'[s] # None}
              IN /\ Cardinality(populated) <= N
                 /\ Cardinality(populated) <= 2 * BUFF_RADIUS + 1]_vars

\* the indices a full-window refill around i asks for
Requested(i) == {GotoTasks(i)[m][1] : m \in DOMAIN GotoTasks(i)}

\* the indices whose slot the clear loops keep when the index is i
Kept(i) ==
    {s \in Ids : ClearOutside([x \in Ids |-> Payload(<<x, "rgb">>)], i)[s] # None}

\* C29: for every index i, the indices a full-window refill requests,
\* (i + d) mod N for d in -R..R, are exactly the indices within circular
\* distance R of i, which are the ones eviction keeps.
C29_RefillAndEvictionAgree ==
    \A i \in Ids :
        /\ Requested(i) = {(i + d) % N : d \in (-BUFF_RADIUS)..BUFF_RADIUS}
        /\ Kept(i) = {s \in Ids : CircularDistance(i, s) <= BUFF_RADIUS}
        /\ Requested(i) = Kept(i)

\* C29 witness: after a Go To near the end of a sequence longer than the
\* window and the passes that follow, the visual slots that hold a payload
\* are the ones requested, a set that wraps around and leaves slots out.
C29_Witness ==
    /\ Quiescent /\ last = [event |-> "-GOTO-", result |-> "ok"]
    /\ BUFF_RADIUS = 1 /\ N = 2 * BUFF_RADIUS + 2 /\ index = N - 1
    /\ PopulatedSet("rgb") = Requested(index)
    /\ PopulatedSet("rgb") = Kept(index)
    /\ 0 \in Kept(index) /\ Kept(index) # Ids

\* C30: in every reachable state the label vector has length N and each of
\* its entries is Fire, No Fire or unset, whatever label keys, Apply to All
\* and restores, successful or failed, came before.
C30_LabelsWellFormed ==
    /\ DOMAIN labels = 0..(N - 1)
    /\ \A i \in DOMAIN labels : labels[i] \in LabelValues

\* C30 witness: a restore has just failed on its labels line in a session
\* where labels had been applied; the vector still holds them.
C30_Witness ==
    /\ last = [event |-> "-LOAD_STATE-", result |-> "badlabels"]
    /\ \E i \in DOMAIN labels : labels[i] = "Fire"
    /\ \E i \in DOMAIN labels : labels[i] = "No Fire"

\* C34: a Save State whose confirmation is not answered Yes leaves the state
\* file as it was; only the answer Yes writes it.
C34_SaveWritesOnlyOnYes ==
    [][\A c \in Confirms \ {"Yes"} :
          SaveState(c) => save_state' = save_state]_vars

\* the results on the stack b or on the stack bn
ItemsOf(b, bn) == {b[j] : j \in 1..Len(b)} \cup {bn[j] : j \in 1..Len(bn)}

\* a step that changes stack k appends one result at its end
AppendsOne(k) ==
    /\ Len(Drained(k)') = Len(Drained(k)) + 1
    /\ SubSeq(Drained(k)', 1, Len(Drained(k))) = Drained(k)

\* a step that changes stack k takes off one copy of the item the drain loop
\* has just examined and placed, and nothing else
RemovesExamined(k) ==
    /\ pc = DrainPc(k) /\ drain.item # NoItem /\ drain.placed
    /\ \A x \in ItemsOf(Drained(k), Drained(k)') :
          CountIn(Drained(k)', x) =
              CountIn(Drained(k), x) - (IF x = drain.item THEN 1 ELSE 0)

WorkersIdle == q = <<>> /\ \A w \in Workers : wpc[w] = "get"
StacksEmpty == b_rgb = <<>> /\ b_ir = <<>> /\ b_tiff = <<>>

\* C31: with loaders appending between any two steps of the drain loops, the
\* item a drain loop examines is on its stack until the loop removes it, a
\* stack changes only by a loader appending one result or by the loop taking
\* off one copy of the item it has just examined (so no result leaves a stack
\* unexamined and none is examined again after it is taken off), and once
\* the loaders are idle the stacks become empty.
C31_ResultsExaminedOnceThenGone ==
    /\ [](\A k \in DOMAIN DrainKinds :
            (pc = DrainPc(k) /\ drain.item # NoItem)
                => CountIn(Drained(k), drain.item) >= 1)
    /\ [][\A k \in DOMAIN DrainKinds :
            Drained(k)' # Drained(k) => (AppendsOne(k) \/ RemovesExamined(k))]_vars
    /\ (WorkersIdle ~> StacksEmpty)

\* C31 witness: in the middle of the visual drain loop, after its first item
\* was taken off, the stack holds two equal results and a loader that has
\* just appended a visual result has not yet called task_done.
C31_Witness ==
    /\ pc = DrainPc(1) /\ drain.i = 2 /\ drain.item = NoItem
    /\ Len(b_rgb) >= 2 /\ b_rgb[1] = b_rgb[2]
    /\ \E w \in Workers : wpc[w] = "task_done" /\ wtask[w][2] = "rgb"

\* the indices of the tasks a step has put at the end of the queue
StepRequested == {q'[j][1] : j \in (Len(q) + 1)..Len(q')}

\* C32: every index an arrow key requests is within circular distance R of
\* the new viewing index, and it is farther than R from the old viewing index
\* exactly when N > 2R + 1; when N <= 2R + 1 it was in the old window already.
C32_StepRequestsNewEdge ==
    [][\A d \in {-1, 1} : ArrowKey(d) =>
          /\ StepRequested # {}
          /\ \A r \in StepRequested :
                /\ r \in Ids
                /\ CircularDistance(index', r) <= BUFF_RADIUS
                /\ (CircularDistance(index, r) > BUFF_RADIUS)
                       <=> (N > 2 * BUFF_RADIUS + 1)]_vars

\* C32 witness: Left has just been pressed in a sequence longer than the
\* window; the tasks at the end of the queue are for the far edge of the new
\* window, an index the window of the index before did not hold.
C32_Witness ==
    /\ pc = "tick" /\ last.event = "Left:37"
    /\ BUFF_RADIUS = 1 /\ N > 2 * BUFF_RADIUS + 1 /\ index \in Ids
    /\ Len(q) >= 2
    /\ q[Len(q)][1] = (index - BUFF_RADIUS) % N
    /\ CircularDistance(index, q[Len(q)][1]) = BUFF_RADIUS
    /\ CircularDistance((index + 1) % N, q[Len(q)][1]) > BUFF_RADIUS

Ended == {w \in Workers : wpc[w] \in {"exited", "dead"}}

\* C33: once stop_workers is called, with tasks still queued or a loader
\* already dead from a decode error, it returns, and when it has returned
\* every loader has ended: the ones alive at the call left on a
\* (None, None, None) or on a decode error of their own.
C33_StopWorkersReturns ==
    /\ (pc = "stopping") ~> (pc = "done")
    /\ [](pc = "done" => Ended = Workers)

\* C33 witness: stop_workers has returned although a decode error had ended
\* one loader; the other took a (None, None, None) and the one meant for the
\* dead loader is still queued.
C33_Witness ==
    /\ pc = "done" /\ nfail = 1
    /\ \E w \in Workers : wpc[w] = "dead"
    /\ \E w \in Workers : wpc[w] = "exited"
    /\ q = <<StopTask>>

====
